---- MODULE Spec2Model ----
(***************************************************************************)
(* Model of the two core subsystems of preact-missing-hooks:               *)
(*   - useThreadedWorker: the priority task queue / scheduler              *)
(*   - useIndexedDB: connection registry, hook binding, transactions       *)
(*     (TxSpec), optional callbacks (CallbackSpec), table operations       *)
(*     (TableSpec), schema upgrade on open (SchemaSpec)                    *)
(* Each subsystem has its own specification; the variables of the other    *)
(* subsystems stay at their initial values.                                *)
(***************************************************************************)
EXTENDS Integers, Sequences, FiniteSets, TLC

\* ------------------------------------------------------------------ bounds
MaxTasks == 3
MaxPriority == 2
MaxConcurrency == 2
MaxVersion == 2
MaxEffects == 2
MaxKey == 1
MaxVal == 1
MaxOps == 2
MaxBindings == 2
MaxId == 2
MaxData == 2
MaxItems == 2
MaxOpens == 2

\* ------------------------------------------------- program constants
DEFAULT_PRIORITY == 1
DefaultConcurrency == 4

VARIABLES
  \* useThreadedWorker
  options,          \* { mode, concurrency? } passed to the hook
  queueRef,         \* queueRef.current: pending QueuedTask records
  sequenceRef,      \* sequenceRef.current
  activeCountRef,   \* activeCountRef.current
  terminatedRef,    \* terminatedRef.current
  loading,          \* useState: loading
  result,           \* useState: result
  error,            \* useState: error
  queueSize,        \* useState: queueSize
  microtasks,       \* number of processNext jobs queued by queueMicrotask
  phase,            \* per task (by sequence): where it is in its life
  promise,          \* per task: the promise returned by run()
  work,             \* per task: outcome of the workerFn invocation
  invoked,          \* the tasks handed to workerFn by the latest step, in call order
  runReturn,        \* what the latest run() call returned
  mounted,          \* the component using the hook is mounted
  \* useIndexedDB: connection registry and hook bindings
  connectionCache,  \* Map<string, Promise<IDBDatabase>>: key -> cached promise
  engineOpens,      \* per (name, version): indexedDB.open requests issued
  openState,        \* per (name, version): state of the promise of _openDB
  conn,             \* per (name, version): the IDBDatabase handed out by the engine
  returned,         \* per (name, version): the promises openDB has returned for it
  binding,          \* per hook instance: mounted, config, db, isReady, error
  effects,          \* effect runs awaiting the promise: binding, promise, cancelled
  effectRuns,       \* number of effect runs so far
  \* useIndexedDB: one open connection, its tables and db.transaction()
  store,            \* committed contents: table -> key -> value (Absent if none)
  before,           \* the committed contents when the transaction was created
  txn,              \* the IDBTransaction made by db.transaction(storeNames, mode)
  txPromise,        \* the promise settled by tx.oncomplete / tx.onerror
  cb,               \* the callback handed to transaction(): where it stands
  \* table operations and their optional callbacks
  wc,               \* one call made with { onSuccess, onError }: where it stands
  tbl,              \* committed records of the object store: key -> record
  otx,              \* the transaction the table operation runs in
  op,               \* the table operation in progress: call, requests, promise
  \* openDB and the schema of the container it opens
  container,        \* the stored database: version, object stores, their indexes
  request,          \* per (name, version): config.tables held by the open request
  schema,           \* per (name, version): the object stores its connection sees
  calls,            \* the openDB calls made: config, promise returned, its state then
  upgrade,          \* what the latest onupgradeneeded found and created
  failure           \* per (name, version): request.error and the rejection reason

schedVars == <<options, queueRef, sequenceRef, activeCountRef, terminatedRef,
               loading, result, error, queueSize, microtasks, phase, promise,
               work, invoked, runReturn, mounted>>

dbVars == <<connectionCache, engineOpens, openState, conn, returned, binding,
           effects, effectRuns>>

txVars == <<store, before, txn, txPromise, cb>>

opVars == <<wc, tbl, otx, op>>

upVars == <<container, request, schema, calls, upgrade, failure>>

vars == <<schedVars, dbVars, txVars, opVars, upVars>>

\* ------------------------------------------------------------ values
Undefined == [kind |-> "undefined", of |-> 0]
Value(s) == [kind |-> "value", of |-> s]
WorkError(s) == [kind |-> "workError", of |-> s]
ClearedError == [kind |-> "Task cleared from queue", of |-> 0]
TerminatedError == [kind |-> "Worker is terminated", of |-> 0]

\* a DOMException of the engine or of the controller, by name
DOMError(name) == [kind |-> name, of |-> 0]

Pending == [state |-> "pending", with |-> Undefined]
Resolved(v) == [state |-> "resolved", with |-> v]
Rejected(r) == [state |-> "rejected", with |-> r]
NoPromise == [state |-> "none", with |-> Undefined]

TaskIds == 1..MaxTasks

Max(a, b) == IF a >= b THEN a ELSE b

\* const { mode, concurrency = 4 } = options
Concurrency == IF options.hasConcurrency THEN options.concurrency ELSE DefaultConcurrency

\* mode === "sequential" ? 1 : Math.max(1, concurrency)
maxConcurrent == IF options.mode = "sequential" THEN 1 ELSE Max(1, Concurrency)

\* mutant of Compare: the priority is ignored, the order is plain FIFO
CompareBySequence(a, b) == a.sequence - b.sequence

\* the comparator handed to Array.prototype.sort
Compare(a, b) ==
  IF a.priority # b.priority THEN a.priority - b.priority
  ELSE a.sequence - b.sequence

\* insert t into an already sorted sequence, after every element that does
\* not compare greater (a stable sort, as Array.prototype.sort is)
RECURSIVE InsertSorted(_, _)
InsertSorted(t, s) ==
  IF s = <<>> THEN <<t>>
  ELSE IF Compare(Head(s), t) <= 0 THEN <<Head(s)>> \o InsertSorted(t, Tail(s))
  ELSE <<t>> \o s

\* mutant of SortQueue: the queue is left in submission order
SortQueueSkipped(q) == q

RECURSIVE SortQueue(_)
SortQueue(q) ==
  IF q = <<>> THEN <<>>
  ELSE InsertSorted(q[Len(q)], SortQueue(SubSeq(q, 1, Len(q) - 1)))

\* The part of the scheduler state that one processNext pass reads and writes.
Pass ==
  [queue |-> queueRef, active |-> activeCountRef, loading |-> loading,
   queueSize |-> queueSize, phase |-> phase, work |-> work,
   started |-> <<>>]

\* mutant of updateQueueSize: the observable is left stale
updateQueueSizeStale(st) == st

\* setQueueSize(queueRef.current.length + activeCountRef.current)
updateQueueSize(st) == [st EXCEPT !.queueSize = Len(st.queue) + st.active]

\* mutant of StartTask: the task is read from the front but not removed
StartTaskKeepsQueued(st) ==
  LET sorted == SortQueue(st.queue)
      task == Head(sorted)
  IN updateQueueSize(
       [st EXCEPT !.queue = sorted,
                  !.active = @ + 1,
                  !.loading = TRUE,
                  !.phase[task.sequence] = "running",
                  !.work[task.sequence] = Pending,
                  !.started = Append(@, task)])

\* queueRef.current.sort(...); task = shift(); activeCount += 1;
\* setLoading(true); updateQueueSize(); fn(task.data)
StartTask(st) ==
  LET sorted == SortQueue(st.queue)
      task == Head(sorted)
  IN updateQueueSize(
       [st EXCEPT !.queue = Tail(sorted),
                  !.active = @ + 1,
                  !.loading = TRUE,
                  !.phase[task.sequence] = "running",
                  !.work[task.sequence] = Pending,
                  !.started = Append(@, task)])

\* mutant of processNext: the activeCount >= maxConcurrent guard is missing
RECURSIVE processNextNoLimit(_)
processNextNoLimit(st) ==
  IF terminatedRef THEN st
  ELSE IF Len(st.queue) = 0
    THEN updateQueueSize([st EXCEPT !.loading = IF st.active = 0 THEN FALSE ELSE @])
  ELSE LET st1 == StartTask(st)
       IN IF Len(st1.queue) > 0 THEN processNextNoLimit(st1) ELSE st1

RECURSIVE processNext(_)
processNext(st) ==
  IF terminatedRef THEN st
  ELSE IF st.active >= maxConcurrent THEN st
  ELSE IF Len(st.queue) = 0
    THEN updateQueueSize([st EXCEPT !.loading = IF st.active = 0 THEN FALSE ELSE @])
  ELSE LET st1 == StartTask(st)
       IN IF Len(st1.queue) > 0 /\ st1.active < maxConcurrent
            THEN processNext(st1)
            ELSE st1

\* write the outcome of a processNext pass back to the state
ApplyPass(st) ==
  /\ queueRef' = st.queue
  /\ activeCountRef' = st.active
  /\ loading' = st.loading
  /\ queueSize' = st.queueSize
  /\ phase' = st.phase
  /\ work' = st.work
  /\ invoked' = st.started

RunOptions ==
  {[hasPriority |-> FALSE, priority |-> 0]}
    \cup {[hasPriority |-> TRUE, priority |-> p] : p \in 1..MaxPriority}

\* mutant of run: the terminatedRef guard is missing
runIgnoresTerminated(runOptions) ==
  /\ UNCHANGED <<dbVars, txVars, opVars, upVars>>
  /\ sequenceRef < MaxTasks
  /\ sequenceRef' = sequenceRef + 1
  /\ queueRef' = Append(queueRef,
                        [priority |-> IF runOptions.hasPriority
                                        THEN runOptions.priority
                                        ELSE DEFAULT_PRIORITY,
                         sequence |-> sequenceRef + 1])
  /\ queueSize' = Len(queueRef') + activeCountRef
  /\ phase' = [phase EXCEPT ![sequenceRef + 1] = "queued"]
  /\ promise' = [promise EXCEPT ![sequenceRef + 1] = Pending]
  /\ loading' = TRUE
  /\ microtasks' = microtasks + 1
  /\ runReturn' = Pending
  /\ invoked' = <<>>
  /\ UNCHANGED <<options, activeCountRef, terminatedRef, result, error, work,
                 mounted>>

\* run(data, runOptions): rejects when terminated, else enqueues the task,
\* updates queueSize and loading and queues a processNext microtask
run(runOptions) ==
  /\ UNCHANGED <<dbVars, txVars, opVars, upVars>>
  /\ IF terminatedRef
    THEN /\ runReturn' = Rejected(TerminatedError)
         /\ invoked' = <<>>
         /\ UNCHANGED <<options, queueRef, sequenceRef, activeCountRef,
                        terminatedRef, loading, result, error, queueSize,
                        microtasks, phase, promise, work, mounted>>
    ELSE /\ sequenceRef < MaxTasks
         /\ LET priority == IF runOptions.hasPriority THEN runOptions.priority
                            ELSE DEFAULT_PRIORITY
                sequence == sequenceRef + 1
            IN /\ sequenceRef' = sequence
               /\ queueRef' = Append(queueRef,
                                     [priority |-> priority, sequence |-> sequence])
               /\ queueSize' = Len(queueRef') + activeCountRef
               /\ phase' = [phase EXCEPT ![sequence] = "queued"]
               /\ promise' = [promise EXCEPT ![sequence] = Pending]
         /\ loading' = TRUE
         /\ microtasks' = microtasks + 1
         /\ runReturn' = Pending
         /\ invoked' = <<>>
         /\ UNCHANGED <<options, activeCountRef, terminatedRef, result, error,
                        work, mounted>>

\* a processNext job queued by run() reaches the front of the microtask queue
ProcessNextJob ==
  /\ UNCHANGED <<dbVars, txVars, opVars, upVars>>
  /\ microtasks > 0
  /\ microtasks' = microtasks - 1
  /\ ApplyPass(processNext(Pass))
  /\ UNCHANGED <<options, sequenceRef, terminatedRef, result, error, promise,
                 runReturn, mounted>>

\* the promise returned by workerFn(task.data) settles, either way
WorkSettles(s) ==
  /\ UNCHANGED <<dbVars, txVars, opVars, upVars>>
  /\ phase[s] = "running"
  /\ work[s] = Pending
  /\ \/ work' = [work EXCEPT ![s] = Resolved(Value(s))]
     \/ work' = [work EXCEPT ![s] = Rejected(WorkError(s))]
  /\ invoked' = <<>>
  /\ UNCHANGED <<options, queueRef, sequenceRef, activeCountRef, terminatedRef,
                 loading, result, error, queueSize, microtasks, phase, promise,
                 runReturn, mounted>>

\* mutant of ThenHandler: the value goes to the oldest unsettled promise
ThenHandlerResolvesOldest(s, value) ==
  /\ result' = value
  /\ error' = Undefined
  /\ LET oldest == CHOOSE t \in TaskIds :
                     promise[t] = Pending /\ \A u \in 1..(t - 1) : promise[u] # Pending
     IN promise' = [promise EXCEPT ![oldest] = Resolved(value)]

\* .then((value) => { setResult(value); setError(undefined); task.resolve(value) })
ThenHandler(s, value) ==
  /\ result' = value
  /\ error' = Undefined
  /\ promise' = [promise EXCEPT ![s] = Resolved(value)]

\* mutant of CatchHandler: the failure also rejects every unsettled promise
CatchHandlerFailsAll(s, err) ==
  /\ result' = result
  /\ error' = err
  /\ promise' = [t \in TaskIds |-> IF promise[t] = Pending THEN Rejected(err)
                                   ELSE promise[t]]

\* .catch((err) => { setError(err); task.reject(err) })
CatchHandler(s, err) ==
  /\ result' = result
  /\ error' = err
  /\ promise' = [promise EXCEPT ![s] = Rejected(err)]

\* the then/catch reaction of a settled workerFn promise runs
Reaction(s) ==
  /\ UNCHANGED <<dbVars, txVars, opVars, upVars>>
  /\ phase[s] = "running"
  /\ work[s].state \in {"resolved", "rejected"}
  /\ phase' = [phase EXCEPT ![s] = "settled"]
  /\ IF work[s].state = "resolved"
       THEN ThenHandler(s, work[s].with)
       ELSE CatchHandler(s, work[s].with)
  /\ invoked' = <<>>
  /\ UNCHANGED <<options, queueRef, sequenceRef, activeCountRef, terminatedRef,
                 loading, queueSize, microtasks, work, runReturn, mounted>>

\* mutant of Finally: the completion does not call processNext
FinallyWithoutProcessNext(s) ==
  /\ UNCHANGED <<dbVars, txVars, opVars, upVars>>
  /\ phase[s] = "settled"
  /\ ApplyPass(updateQueueSize([Pass EXCEPT !.active = @ - 1, !.phase[s] = "done"]))
  /\ UNCHANGED <<options, sequenceRef, terminatedRef, result, error, microtasks,
                 promise, runReturn, mounted>>

\* .finally(() => { activeCount -= 1; updateQueueSize(); processNext() })
Finally(s) ==
  /\ UNCHANGED <<dbVars, txVars, opVars, upVars>>
  /\ phase[s] = "settled"
  /\ ApplyPass(processNext(updateQueueSize(
       [Pass EXCEPT !.active = @ - 1, !.phase[s] = "done"])))
  /\ UNCHANGED <<options, sequenceRef, terminatedRef, result, error, microtasks,
                 promise, runReturn, mounted>>

\* pending.forEach((t) => t.reject(new Error("Task cleared from queue")))
RejectPending(q) ==
  [s \in TaskIds |->
     IF \E i \in 1..Len(q) : q[i].sequence = s THEN Rejected(ClearedError)
     ELSE promise[s]]

\* mutant of ClearQueueBody: the tasks are rejected but stay in the queue
ClearQueueBodyKeepsQueue ==
  /\ queueRef' = queueRef
  /\ promise' = RejectPending(queueRef)
  /\ phase' = phase
  /\ queueSize' = Len(queueRef') + activeCountRef
  /\ loading' = IF activeCountRef = 0 THEN FALSE ELSE loading

\* the body of clearQueue()
ClearQueueBody ==
  /\ queueRef' = <<>>
  /\ promise' = RejectPending(queueRef)
  /\ phase' = [s \in TaskIds |->
                 IF \E i \in 1..Len(queueRef) : queueRef[i].sequence = s
                   THEN "cleared" ELSE phase[s]]
  /\ queueSize' = Len(queueRef') + activeCountRef
  /\ loading' = IF activeCountRef = 0 THEN FALSE ELSE loading

clearQueue ==
  /\ UNCHANGED <<dbVars, txVars, opVars, upVars>>
  /\ ClearQueueBody
  /\ invoked' = <<>>
  /\ UNCHANGED <<options, sequenceRef, activeCountRef, terminatedRef, result,
                 error, microtasks, work, runReturn, mounted>>

\* terminatedRef.current = true; clearQueue()
terminate ==
  /\ UNCHANGED <<dbVars, txVars, opVars, upVars>>
  /\ terminatedRef' = TRUE
  /\ ClearQueueBody
  /\ invoked' = <<>>
  /\ UNCHANGED <<options, sequenceRef, activeCountRef, result, error,
                 microtasks, work, runReturn, mounted>>

\* the cleanup of the hook's effect: terminatedRef.current = true
Unmount ==
  /\ UNCHANGED <<dbVars, txVars, opVars, upVars>>
  /\ mounted
  /\ mounted' = FALSE
  /\ terminatedRef' = TRUE
  /\ invoked' = <<>>
  /\ UNCHANGED <<options, queueRef, sequenceRef, activeCountRef, loading,
                 result, error, queueSize, microtasks, phase, promise, work, runReturn>>

\* ------------------------------------------- connection registry, hook
DbNames == {"app", "app_v1"}
Versions == 1..MaxVersion
Configs == [name : DbNames, version : Versions]
Bindings == 1..MaxBindings

\* const key = `${config.name}_v${config.version}`
CacheKey(config) == config.name \o "_v" \o ToString(config.version)

CacheKeys == {CacheKey(c) : c \in Configs}

\* a promise made by _openDB(config): the n-th open request for that config
OpenPromise(config, n) == [name |-> config.name, version |-> config.version, n |-> n]
NoEntry == [name |-> "", version |-> 0, n |-> 0]
ConfigOf(p) == [name |-> p.name, version |-> p.version]

\* _openDB(config): indexedDB.open(config.name, config.version), promise pending
OpenRequest(reg, config) ==
  [reg EXCEPT !.opens[config] = @ + 1,
              !.state[config] = "pending",
              !.promise = OpenPromise(config, reg.opens[config] + 1)]

\* mutant of openDB: a cached promise that has rejected is replaced by a new open
openDBRetriesRejected(reg, config) ==
  LET key == CacheKey(config)
  IN IF reg.cache[key] # NoEntry /\ reg.state[config] # "rejected"
       THEN [reg EXCEPT !.promise = reg.cache[key]]
       ELSE LET opened == OpenRequest(reg, config)
            IN [opened EXCEPT !.cache[key] = opened.promise]

\* mutant of openDB: the new promise is not stored in the cache
openDBNoCacheWrite(reg, config) ==
  IF reg.cache[CacheKey(config)] # NoEntry
    THEN [reg EXCEPT !.promise = reg.cache[CacheKey(config)]]
    ELSE OpenRequest(reg, config)

\* openDB(config): get the cached promise or open and cache a new one
openDB(reg, config) ==
  LET key == CacheKey(config)
  IN IF reg.cache[key] # NoEntry
       THEN [reg EXCEPT !.promise = reg.cache[key]]
       ELSE LET opened == OpenRequest(reg, config)
            IN [opened EXCEPT !.cache[key] = opened.promise]

Registry ==
  [cache |-> connectionCache, opens |-> engineOpens, state |-> openState,
   promise |-> NoEntry]

\* the binding after setError(null); setIsReady(false); setDb(null); `due`
\* says that a render has changed the effect's dependencies and the effect
\* has not run yet
FreshBinding(config) ==
  [mounted |-> TRUE, config |-> config, db |-> NoEntry, isReady |-> FALSE,
   error |-> FALSE, due |-> FALSE]

\* no component instance: nothing is rendered from this slot
NoBinding ==
  [mounted |-> FALSE, config |-> [name |-> "", version |-> 0], db |-> NoEntry,
   isReady |-> FALSE, error |-> FALSE, due |-> FALSE]

\* the effect runs made and those a render has made due
EffectsPlanned == effectRuns + Cardinality({b \in Bindings : binding[b].due})

\* the cleanup of the binding's live effect run: cancelled = true
Cleanup(b) ==
  {IF e.binding = b THEN [e EXCEPT !.cancelled = TRUE] ELSE e : e \in effects}

\* the effect body: reset the state, openDB(configRef.current), subscribe
RunEffect(b, config) ==
  LET reg == openDB(Registry, config)
  IN /\ connectionCache' = reg.cache
     /\ engineOpens' = reg.opens
     /\ openState' = reg.state
     /\ returned' = [returned EXCEPT ![config] = @ \cup {reg.promise}]
     /\ binding' = [binding EXCEPT ![b] = FreshBinding(config)]
     /\ effects' = Cleanup(b) \cup
                     {[binding |-> b, promise |-> reg.promise, cancelled |-> FALSE]}
     /\ effectRuns' = effectRuns + 1
     /\ UNCHANGED conn

\* a component using useIndexedDB(config) mounts and its effect runs (the
\* first render returns the initial state, which is the state the effect sets)
Mount(b, config) ==
  /\ ~binding[b].mounted
  /\ EffectsPlanned < MaxEffects
  /\ RunEffect(b, config)
  /\ UNCHANGED <<schedVars, txVars, opVars, upVars>>

\* a re-render with another name or version: the hook body sets
\* configRef.current = config and returns db, isReady and error as they are;
\* the effect, whose dependencies changed, runs after the render
Rerender(b, config) ==
  /\ binding[b].mounted
  /\ ~binding[b].due
  /\ config # binding[b].config
  /\ EffectsPlanned < MaxEffects
  /\ binding' = [binding EXCEPT ![b].config = config, ![b].due = TRUE]
  /\ UNCHANGED <<connectionCache, engineOpens, openState, conn, returned,
                 effects, effectRuns, schedVars, txVars, opVars, upVars>>

\* the effect that the re-render made due: the cleanup of the previous run,
\* then the effect body
RerunEffect(b) ==
  /\ binding[b].mounted
  /\ binding[b].due
  /\ RunEffect(b, binding[b].config)
  /\ UNCHANGED <<schedVars, txVars, opVars, upVars>>

\* the component unmounts: the effect's cleanup sets cancelled = true
UnmountBinding(b) ==
  /\ binding[b].mounted
  /\ binding' = [binding EXCEPT ![b] = NoBinding]
  /\ effects' = Cleanup(b)
  /\ UNCHANGED <<connectionCache, engineOpens, openState, conn, returned,
                 effectRuns, schedVars, txVars, opVars, upVars>>

\* request.onsuccess = () => resolve(request.result)
EngineOpenSuccess(config) ==
  /\ openState[config] = "pending"
  /\ openState' = [openState EXCEPT ![config] = "resolved"]
  /\ conn' = [conn EXCEPT ![config] = "open"]
  /\ UNCHANGED <<connectionCache, engineOpens, returned, binding, effects,
                 effectRuns, schedVars, txVars, opVars, upVars>>

\* request.onerror = () => reject(request.error ?? ...)
EngineOpenError(config) ==
  /\ openState[config] = "pending"
  /\ openState' = [openState EXCEPT ![config] = "rejected"]
  /\ UNCHANGED <<connectionCache, engineOpens, conn, returned, binding, effects,
                 effectRuns, schedVars, txVars, opVars, upVars>>

\* .then((database) => { if (cancelled) { database.close(); return } ... })
OpenThen(e) ==
  IF e.cancelled
    THEN /\ conn' = [conn EXCEPT ![ConfigOf(e.promise)] = "closed"]
         /\ binding' = binding
    ELSE /\ conn' = conn
         /\ binding' = [binding EXCEPT ![e.binding].db = e.promise,
                                       ![e.binding].isReady = TRUE]

\* .catch((err) => { if (!cancelled) setError(err) })
OpenCatch(e) ==
  /\ conn' = conn
  /\ binding' = IF e.cancelled THEN binding
                ELSE [binding EXCEPT ![e.binding].error = TRUE]

\* the reaction of one effect run to the settled promise of openDB
OpenReaction(e) ==
  /\ e \in effects
  /\ openState[ConfigOf(e.promise)] \in {"resolved", "rejected"}
  /\ IF openState[ConfigOf(e.promise)] = "resolved" THEN OpenThen(e) ELSE OpenCatch(e)
  /\ effects' = effects \ {e}
  /\ UNCHANGED <<connectionCache, engineOpens, openState, returned, effectRuns,
                 schedVars, txVars, opVars, upVars>>

DbInit ==
  /\ connectionCache = [k \in CacheKeys |-> NoEntry]
  /\ engineOpens = [c \in Configs |-> 0]
  /\ openState = [c \in Configs |-> "none"]
  /\ conn = [c \in Configs |-> "none"]
  /\ returned = [c \in Configs |-> {}]
  /\ binding = [b \in Bindings |-> NoBinding]
  /\ effects = {}
  /\ effectRuns = 0

DbNext ==
  \/ \E b \in Bindings, c \in Configs : Mount(b, c)
  \/ \E b \in Bindings, c \in Configs : Rerender(b, c)
  \/ \E b \in Bindings : RerunEffect(b)
  \/ \E b \in Bindings : UnmountBinding(b)
  \/ \E c \in Configs : EngineOpenSuccess(c)
  \/ \E c \in Configs : EngineOpenError(c)
  \/ \E e \in effects : OpenReaction(e)

\* ------------------------------------------------ schema upgrade on open
\* the configured table names and index names; one database name is followed
SchemaNames == {"app"}
SchemaTables == {"A", "B"}
IndexNames == {"x"}

\* config.tables[name]: a TableSchema, or no entry; `indexes` is a set of
\* names, as each name is listed once
NotConfigured == [configured |-> FALSE, indexes |-> {}]
TableMaps ==
  [SchemaTables -> {NotConfigured} \cup [configured : {TRUE}, indexes : SUBSET IndexNames]]
SchemaConfigs == [name : SchemaNames, version : Versions, tables : TableMaps]
NoTables == [t \in SchemaTables |-> NotConfigured]

\* the (name, version) that the cache key is made of
Identity(config) == [name |-> config.name, version |-> config.version]

\* an object store of the container: its indexes, whether it holds records
NoStore == [present |-> FALSE, indexes |-> {}, rows |-> FALSE]
NoStores == [t \in SchemaTables |-> NoStore]
\* a database that does not exist yet: the engine reports version 0
NoContainer == [version |-> 0, stores |-> NoStores]

StoreMaps ==
  [SchemaTables -> {NoStore} \cup [present : {TRUE}, indexes : SUBSET IndexNames,
                                  rows : BOOLEAN]]

\* what the database may hold when the page loads and the module's cache is
\* made empty: nothing, or what the opens of earlier page loads left (a
\* version and, by OnUpgradeNeeded and InsertRecord, any stores)
Containers == {NoContainer} \cup [version : Versions, stores : StoreMaps]

NoUpgrade ==
  [ran |-> FALSE, oldVersion |-> 0, newVersion |-> 0, before |-> NoStores,
   after |-> NoStores, createObjectStore |-> {}, createIndex |-> {}]

\* mutant of OnUpgradeNeeded: the objectStoreNames.contains check is missing
\* and every configured store is made anew
OnUpgradeNeededRecreates(stores, tables) ==
  [stores |-> [t \in SchemaTables |->
                 IF tables[t].configured
                   THEN [present |-> TRUE, indexes |-> tables[t].indexes, rows |-> FALSE]
                   ELSE stores[t]],
   createObjectStore |-> {t \in SchemaTables : tables[t].configured},
   createIndex |-> {[table |-> t, index |-> i] : t \in {u \in SchemaTables : tables[u].configured},
                                                 i \in IndexNames} \cap
                   {r \in [table : SchemaTables, index : IndexNames] :
                      r.index \in tables[r.table].indexes}]

\* request.onupgradeneeded: for every table of config.tables that is not in
\* db.objectStoreNames, createObjectStore and createIndex for each of its indexes
OnUpgradeNeeded(stores, tables) ==
  LET missing == {t \in SchemaTables : tables[t].configured /\ ~stores[t].present}
  IN [stores |-> [t \in SchemaTables |->
                    IF t \in missing
                      THEN [present |-> TRUE, indexes |-> tables[t].indexes, rows |-> FALSE]
                      ELSE stores[t]],
      createObjectStore |-> missing,
      createIndex |-> {r \in [table : SchemaTables, index : IndexNames] :
                         r.table \in missing /\ r.index \in tables[r.table].indexes}]

\* openDB(config) called by some consumer; _openDB keeps config in the closure
\* of its request handlers
Open(config) ==
  LET id == Identity(config)
      reg == openDB(Registry, id)
  IN /\ connectionCache' = reg.cache
     /\ engineOpens' = reg.opens
     /\ openState' = reg.state
     /\ returned' = [returned EXCEPT ![id] = @ \cup {reg.promise}]
     /\ request' = IF reg.opens # engineOpens
                     THEN [request EXCEPT ![id] = config.tables]
                     ELSE request
     /\ calls' = calls \cup {[config |-> config, promise |-> reg.promise,
                               found |-> openState[id]]}
     /\ UNCHANGED <<conn, binding, effects, effectRuns, container, schema, upgrade,
                    failure, schedVars, txVars, opVars>>

\* the engine holds an upgrading open back while a connection of another
\* version to the same database is open (no onblocked handler is set)
Blocked(id) == \E o \in Configs : o.name = id.name /\ o # id /\ conn[o] = "open"

\* request.onsuccess = () => resolve(request.result)
OpenSucceeds(id, stores) ==
  /\ openState' = [openState EXCEPT ![id] = "resolved"]
  /\ conn' = [conn EXCEPT ![id] = "open"]
  /\ schema' = [schema EXCEPT ![id] = stores]

\* request.error of a failed open; null when the engine gives none
OpenErrors == {DOMError("UnknownError"), Undefined}

\* request.onerror = () => reject(request.error ?? new DOMException(...))
OpenFails(id, e) ==
  /\ openState' = [openState EXCEPT ![id] = "rejected"]
  /\ failure' = [failure EXCEPT ![id] =
                   [reported |-> e,
                    reason |-> IF e = Undefined THEN DOMError("Failed to open database")
                               ELSE e]]

\* the engine serves indexedDB.open(name, version): a version below the
\* stored one fails; the stored one opens as it is; a higher one fires
\* onupgradeneeded in a versionchange transaction, then onsuccess
EngineOpen(id) ==
  /\ openState[id] = "pending"
  /\ IF id.version < container.version
       THEN /\ OpenFails(id, DOMError("VersionError"))
            /\ UNCHANGED <<conn, schema, container, upgrade>>
     ELSE IF id.version = container.version
       THEN /\ OpenSucceeds(id, container.stores)
            /\ UNCHANGED <<container, upgrade, failure>>
     ELSE /\ ~Blocked(id)
          /\ LET up == OnUpgradeNeeded(container.stores, request[id])
             IN /\ container' = [version |-> id.version, stores |-> up.stores]
                /\ upgrade' = [ran |-> TRUE, oldVersion |-> container.version,
                               newVersion |-> id.version,
                               before |-> container.stores, after |-> up.stores,
                               createObjectStore |-> up.createObjectStore,
                               createIndex |-> up.createIndex]
                /\ OpenSucceeds(id, up.stores)
                /\ UNCHANGED failure
  /\ UNCHANGED <<connectionCache, engineOpens, returned, binding, effects,
                 effectRuns, request, calls, schedVars, txVars, opVars>>

\* the engine fails the open request for a reason of its own
EngineOpenFails(id, e) ==
  /\ openState[id] = "pending"
  /\ OpenFails(id, e)
  /\ UNCHANGED <<connectionCache, engineOpens, conn, returned, binding, effects,
                 effectRuns, container, request, schema, calls, upgrade,
                 schedVars, txVars, opVars>>

\* a consumer closes the connection it was given: database.close()
CloseConnection(id) ==
  /\ conn[id] = "open"
  /\ conn' = [conn EXCEPT ![id] = "closed"]
  /\ UNCHANGED <<connectionCache, engineOpens, openState, returned, binding,
                 effects, effectRuns, upVars, schedVars, txVars, opVars>>

\* db.table(name).insert(record) on an open connection commits a record
InsertRecord(id, t) ==
  /\ conn[id] = "open"
  /\ schema[id][t].present
  /\ ~container.stores[t].rows
  /\ container' = [container EXCEPT !.stores[t].rows = TRUE]
  /\ UNCHANGED <<request, schema, calls, upgrade, failure, dbVars, schedVars,
                 txVars, opVars>>

\* IDBController.hasTable(name) on the connection of an identity
hasTable(id, name) == schema[id][name].present

NoFailure == [reported |-> Undefined, reason |-> Undefined]

\* openDB is not called with a tables map in the other specifications
UpIdle ==
  /\ container = NoContainer
  /\ request = [c \in Configs |-> NoTables]
  /\ schema = [c \in Configs |-> NoStores]
  /\ calls = {}
  /\ upgrade = NoUpgrade
  /\ failure = [c \in Configs |-> NoFailure]

\* --------------------------------------------- transactions on a connection
Tables == {"A", "B"}
Keys == 1..MaxKey
Vals == 1..MaxVal
Absent == 0
Contents == [Tables -> [Keys -> {Absent} \cup Vals]]

NoTxn == [state |-> "none", scope |-> {}, work |-> [t \in Tables |-> [k \in Keys |-> Absent]],
          queue |-> <<>>, issued |-> 0]
IdleCallback == [state |-> "idle", async |-> FALSE, awaits |-> 0, wrote |-> {}]

\* store.add(data) / store.put(data) on the transaction's object store
Requests ==
  [op : {"add", "put"}, table : Tables, key : Keys, val : Vals]

\* the n-th request of the transaction
Issue(r, n) ==
  [op |-> r.op, table |-> r.table, key |-> r.key, val |-> r.val, id |-> n]

\* transaction(storeNames, 'readwrite', callback): db.transaction(...), the
\* txPromise on oncomplete/onerror, and the call of callback(txContext)
Transaction(storeNames, async) ==
  /\ txn.state \in {"none", "committed", "aborted"}
  /\ cb.state \in {"idle", "returned", "threw"}
  /\ before' = store
  /\ txn' = [state |-> "active", scope |-> storeNames, work |-> store,
             queue |-> <<>>, issued |-> 0]
  /\ txPromise' = Pending
  /\ cb' = [state |-> "sync", async |-> async, awaits |-> 0, wrote |-> {}]
  /\ UNCHANGED <<store, schedVars, dbVars, opVars, upVars>>

\* the callback calls tx.table(name).insert(data) or .upsert(data):
\* createTransactionController(tx, name) issues store.add / store.put
CbWrite(r) ==
  /\ cb.state = "sync"
  /\ txn.state = "active"
  /\ r.table \in txn.scope
  /\ txn.issued < MaxOps
  /\ txn' = [txn EXCEPT !.queue = Append(@, Issue(r, txn.issued + 1)),
                        !.issued = @ + 1]
  /\ cb' = [cb EXCEPT !.wrote = @ \cup {r.table}]
  /\ UNCHANGED <<store, before, txPromise, schedVars, dbVars, opVars, upVars>>

\* an async callback awaits the promise of the request it issued last
CbAwait ==
  /\ cb.state = "sync"
  /\ cb.async
  /\ txn.queue # <<>>
  /\ cb' = [cb EXCEPT !.state = "awaiting", !.awaits = txn.issued]
  /\ UNCHANGED <<store, before, txn, txPromise, schedVars, dbVars, opVars, upVars>>

\* the callback returns (an async callback: its promise fulfils)
CbReturn ==
  /\ cb.state = "sync"
  /\ cb' = [cb EXCEPT !.state = "returned"]
  /\ UNCHANGED <<store, before, txn, txPromise, schedVars, dbVars, opVars, upVars>>

\* the callback throws (an async callback: its promise rejects)
CbThrow ==
  /\ cb.state = "sync"
  /\ cb' = [cb EXCEPT !.state = "threw"]
  /\ UNCHANGED <<store, before, txn, txPromise, schedVars, dbVars, opVars, upVars>>

\* the engine runs the transaction's next request against its working copy
RequestFails(r) == r.op = "add" /\ txn.work[r.table][r.key] # Absent

\* the request succeeds: requestToPromise resolves, a callback awaiting it resumes
RequestSuccess ==
  /\ txn.state = "active"
  /\ txn.queue # <<>>
  /\ cb.state # "sync"
  /\ ~RequestFails(Head(txn.queue))
  /\ LET r == Head(txn.queue)
     IN /\ txn' = [txn EXCEPT !.work[r.table][r.key] = r.val, !.queue = Tail(@)]
        /\ cb' = IF cb.state = "awaiting" /\ cb.awaits = r.id
                   THEN [cb EXCEPT !.state = "sync", !.awaits = 0]
                   ELSE cb
  /\ UNCHANGED <<store, before, txPromise, schedVars, dbVars, opVars, upVars>>

\* the request fails: its error event bubbles to tx.onerror, which rejects
\* txPromise; the engine aborts the transaction and fails what was queued;
\* a callback awaiting a request resumes with the rejection
RequestError ==
  /\ txn.state = "active"
  /\ txn.queue # <<>>
  /\ cb.state # "sync"
  /\ RequestFails(Head(txn.queue))
  /\ txn' = [txn EXCEPT !.state = "aborted", !.queue = <<>>]
  /\ txPromise' = Rejected([kind |-> "Transaction failed", of |-> 0])
  /\ cb' = IF cb.state = "awaiting"
             THEN [cb EXCEPT !.state = "sync", !.awaits = 0]
             ELSE cb
  /\ UNCHANGED <<store, before, schedVars, dbVars, opVars, upVars>>

\* no request is left and no code of the callback is running: the engine
\* commits the working copy and fires tx.oncomplete, which resolves txPromise
Commit ==
  /\ txn.state = "active"
  /\ txn.queue = <<>>
  /\ cb.state # "sync"
  /\ store' = [t \in Tables |-> IF t \in txn.scope THEN txn.work[t] ELSE store[t]]
  /\ txn' = [txn EXCEPT !.state = "committed"]
  /\ txPromise' = Resolved(Undefined)
  /\ UNCHANGED <<before, cb, schedVars, dbVars, opVars, upVars>>

\* mutant of TransactionResult: the call resolves as soon as the callback has
\* returned, without waiting for txPromise
TransactionResultEarly ==
  IF cb.state = "threw" /\ ~cb.async
    THEN [state |-> "threw", with |-> [kind |-> "callback error", of |-> 0]]
  ELSE IF cb.state = "threw"
    THEN Rejected([kind |-> "callback error", of |-> 0])
  ELSE IF cb.state = "returned" THEN Resolved(Undefined)
  ELSE Pending

\* what the transaction() call gave its caller:
\* Promise.resolve(callback(txContext)).then(() => txPromise)
TransactionResult ==
  IF cb.state = "threw" /\ ~cb.async
    THEN [state |-> "threw", with |-> [kind |-> "callback error", of |-> 0]]
  ELSE IF cb.state = "threw"
    THEN Rejected([kind |-> "callback error", of |-> 0])
  ELSE IF cb.state = "returned" THEN txPromise
  ELSE Pending

TxIdle ==
  /\ before = store
  /\ txn = NoTxn
  /\ txPromise = NoPromise
  /\ cb = IdleCallback

\* ------------------------------------- optional callbacks of a call
\* what a throwing onSuccess / onError throws, what onSuccess may return
OnSuccessThrown == [kind |-> "thrown by onSuccess", of |-> 0]
OnErrorThrown == [kind |-> "thrown by onError", of |-> 0]
OnSuccessReturned == [kind |-> "returned by onSuccess", of |-> 0]

\* the options argument: absent, or { onSuccess?, onError? }; a callback that
\* is present returns undefined, returns a value, or throws
NoOptions == [present |-> FALSE, onSuccess |-> "absent", onError |-> "absent"]
CallOptions ==
  {NoOptions} \cup
  [present : {TRUE},
   onSuccess : {"absent", "returns", "returnsValue", "throws"},
   onError : {"absent", "returns", "throws"}]

\* how the promise handed to withCallbacks / withTransactionCallbacks settles
BaseOutcomes(kind) ==
  IF kind = "table"
    THEN {Resolved(Value(k)) : k \in 1..MaxKey}
           \cup {Rejected(DOMError("ConstraintError")), Rejected(DOMError("NotFoundError"))}
    ELSE {Resolved(Undefined), Rejected(DOMError("Transaction failed")),
          Rejected([kind |-> "callback error", of |-> 0])}

Invocation(callback, arg) == [callback |-> callback, with |-> arg]

\* withCallbacks: .then((result) => { options.onSuccess?.(result); return result })
WithCallbacksThen(p, opts) ==
  IF p.state # "resolved" THEN [promise |-> p, calls |-> <<>>]
  ELSE IF opts.onSuccess = "absent" THEN [promise |-> p, calls |-> <<>>]
  ELSE [promise |-> IF opts.onSuccess = "throws" THEN Rejected(OnSuccessThrown)
                    ELSE Resolved(p.with),
        calls |-> <<Invocation("onSuccess", p.with)>>]

\* withTransactionCallbacks: .then(() => options.onSuccess?.())
WithTransactionCallbacksThen(p, opts) ==
  IF p.state # "resolved" THEN [promise |-> p, calls |-> <<>>]
  ELSE IF opts.onSuccess = "absent" THEN [promise |-> Resolved(Undefined), calls |-> <<>>]
  ELSE [promise |-> IF opts.onSuccess = "throws" THEN Rejected(OnSuccessThrown)
                    ELSE IF opts.onSuccess = "returnsValue"
                      THEN Resolved(OnSuccessReturned)
                    ELSE Resolved(Undefined),
        calls |-> <<Invocation("onSuccess", Undefined)>>]

\* .catch((err) => { options.onError?.(err); throw err }), the same in both
WithCallbacksCatch(p, opts) ==
  IF p.state # "rejected" THEN [promise |-> p, calls |-> <<>>]
  ELSE IF opts.onError = "absent" THEN [promise |-> p, calls |-> <<>>]
  ELSE [promise |-> IF opts.onError = "throws" THEN Rejected(OnErrorThrown)
                    ELSE Rejected(p.with),
        calls |-> <<Invocation("onError", p.with)>>]

\* a call of kind "table" (withCallbacks) or "transaction"
\* (withTransactionCallbacks) has been made; its base promise is pending
NewCall(kind, opts) ==
  [kind |-> kind, options |-> opts, base |-> Pending, chained |-> Pending,
   returned |-> Pending, calls |-> <<>>, stage |-> "called"]

NoCall == NewCall("none", NoOptions)

\* the operation's own promise settles; if (!options) return promise
BaseSettles(outcome) ==
  /\ wc.stage = "called"
  /\ outcome \in BaseOutcomes(wc.kind)
  /\ wc' = IF wc.options.present
             THEN [wc EXCEPT !.base = outcome, !.stage = "settled"]
             ELSE [wc EXCEPT !.base = outcome, !.returned = outcome, !.stage = "done"]
  /\ UNCHANGED <<schedVars, dbVars, txVars, upVars, tbl, otx, op>>

\* the reaction registered by .then(...) runs
ThenReaction ==
  /\ wc.stage = "settled"
  /\ LET r == IF wc.kind = "table" THEN WithCallbacksThen(wc.base, wc.options)
              ELSE WithTransactionCallbacksThen(wc.base, wc.options)
     IN wc' = [wc EXCEPT !.chained = r.promise, !.calls = @ \o r.calls,
                         !.stage = "then"]
  /\ UNCHANGED <<schedVars, dbVars, txVars, upVars, tbl, otx, op>>

\* the reaction registered by .catch(...) runs and settles the returned promise
CatchReaction ==
  /\ wc.stage = "then"
  /\ LET r == WithCallbacksCatch(wc.chained, wc.options)
     IN wc' = [wc EXCEPT !.returned = r.promise, !.calls = @ \o r.calls,
                         !.stage = "done"]
  /\ UNCHANGED <<schedVars, dbVars, txVars, upVars, tbl, otx, op>>

\* ------------------------------------------------ table operations
\* records of a store with keyPath 'id' and one more field, 'v'
Ids == 1..MaxId
Data == 1..MaxData
Records == [id : Ids, v : Data]

\* what store.get gives for a key without a record
Missing == [id |-> 0, v |-> 0]

\* the engine stores a record under the value of its key path
TableContents ==
  {c \in [Ids -> Records \cup {Missing}] : \A k \in Ids : c[k] = Missing \/ c[k].id = k}

\* Partial<T>: any subset of the fields, with values
Partials ==
  {u \in UNION {[S -> 1..Max(MaxId, MaxData)] : S \in SUBSET {"id", "v"}} :
     /\ "id" \in DOMAIN u => u.id \in Ids
     /\ "v" \in DOMAIN u => u.v \in Data}

\* { ...existing, ...updates }
Merge(existing, updates) ==
  [f \in DOMAIN existing \cup DOMAIN updates |->
     IF f \in DOMAIN updates THEN updates[f] ELSE existing[f]]

\* the table names a controller may be made for; 'missing' is no object store
TableNames == {"T", "missing"}
Controllers == {"standalone", "transaction"}

\* the promise state of a call that threw instead of returning a promise
Threw(e) == [state |-> "threw", with |-> e]

\* the value a bulkInsert resolves with: the keys array
KeysArray == [kind |-> "keys", of |-> 0]

\* IDBObjectStore.add / put / get against the transaction's view of the store
AddFails(view, record) == view[record.id] # Missing
Put(view, record) == [view EXCEPT ![record.id] = record]

NoOperation ==
  [name |-> "none", controller |-> "standalone", key |-> 0, data |-> Missing,
   updates |-> [f \in {} |-> 0], items |-> <<>>, requests |-> {}, keys |-> <<>>,
   completed |-> 0, writes |-> 0, promise |-> NoPromise,
   pre |-> [k \in Ids |-> Missing],
   filter |-> {}, cursor |-> 0, results |-> <<>>, visited |-> <<>>]

NoTransaction == [state |-> "none", work |-> [k \in Ids |-> Missing]]

\* one operation is followed from its call to the end of its transaction; the
\* contents it starts from are any a history of earlier operations can leave
CanCall == op.name = "none"

\* getStore on a name that is no object store of the connection:
\* db.transaction([tableName], mode) / tx.objectStore(tableName) throws
GetStoreThrows(name, controller) ==
  /\ op' = [NoOperation EXCEPT !.name = name, !.controller = controller,
                               !.promise = Threw(DOMError("NotFoundError")),
                               !.pre = tbl]
  /\ otx' = NoTransaction
  /\ UNCHANGED tbl

\* getStore succeeded and the operation issued its first requests
Begin(call) ==
  /\ op' = [call EXCEPT !.pre = tbl]
  /\ otx' = [state |-> "active", work |-> tbl]
  /\ UNCHANGED tbl

\* mutant of InsertRequest: insert writes with put
InsertRequestPut(data) == [i |-> 1, kind |-> "put", record |-> data]

\* store.add(data)
InsertRequest(data) == [i |-> 1, kind |-> "add", record |-> data]

\* mutant of UpsertRequest: upsert writes with add
UpsertRequestAdd(data) == [i |-> 1, kind |-> "add", record |-> data]

\* store.put(data)
UpsertRequest(data) == [i |-> 1, kind |-> "put", record |-> data]

\* insert(data): getStore, requestToPromise(store.add(data))
Insert(controller, table, data) ==
  /\ CanCall
  /\ IF table = "missing" THEN GetStoreThrows("insert", controller)
     ELSE Begin([NoOperation EXCEPT !.name = "insert", !.controller = controller,
                                    !.data = data, !.requests = {InsertRequest(data)},
                                    !.writes = 1, !.promise = Pending])
  /\ UNCHANGED <<schedVars, dbVars, txVars, upVars, wc>>

\* upsert(data): getStore, requestToPromise(store.put(data))
Upsert(controller, table, data) ==
  /\ CanCall
  /\ IF table = "missing" THEN GetStoreThrows("upsert", controller)
     ELSE Begin([NoOperation EXCEPT !.name = "upsert", !.controller = controller,
                                    !.data = data, !.requests = {UpsertRequest(data)},
                                    !.writes = 1, !.promise = Pending])
  /\ UNCHANGED <<schedVars, dbVars, txVars, upVars, wc>>

\* the request's error event: requestToPromise rejects with request.error and
\* the engine aborts the transaction, failing what else it had queued
RequestFailed(e) ==
  /\ op' = [op EXCEPT !.promise = Rejected(e), !.requests = {}]
  /\ otx' = [otx EXCEPT !.state = "aborted"]
  /\ UNCHANGED tbl

\* the single add or put request of insert / upsert completes:
\* request.onsuccess resolves with request.result, the record's key
WriteSettles ==
  /\ op.name \in {"insert", "upsert"}
  /\ otx.state = "active"
  /\ \E r \in op.requests :
       IF r.kind = "add" /\ AddFails(otx.work, r.record)
         THEN RequestFailed(DOMError("ConstraintError"))
         ELSE /\ otx' = [otx EXCEPT !.work = Put(otx.work, r.record)]
              /\ op' = [op EXCEPT !.requests = {}, !.promise = Resolved(Value(r.record.id))]
              /\ UNCHANGED tbl
  /\ UNCHANGED <<schedVars, dbVars, txVars, upVars, wc>>

\* mutant of UpdateThen: the existence check is missing
UpdateThenNoCheck(existing, updates) ==
  [throws |-> FALSE, record |-> Merge(existing, updates)]

\* .then((existing) => { if (existing === undefined) throw NotFoundError;
\*                       merged = { ...existing, ...updates }; store.put(merged) })
UpdateThen(existing, updates) ==
  IF existing = Missing THEN [throws |-> TRUE, record |-> Missing]
  ELSE [throws |-> FALSE, record |-> Merge(existing, updates)]

\* update(key, updates): getStore, requestToPromise(store.get(key))
Update(controller, table, key, updates) ==
  /\ CanCall
  /\ IF table = "missing" THEN GetStoreThrows("update", controller)
     ELSE Begin([NoOperation EXCEPT !.name = "update", !.controller = controller,
                                    !.key = key, !.updates = updates,
                                    !.requests = {[i |-> 1, kind |-> "get", record |-> Missing]},
                                    !.promise = Pending])
  /\ UNCHANGED <<schedVars, dbVars, txVars, upVars, wc>>

\* the get request succeeds and, in the microtask checkpoint after its event
\* handler, the then handler runs: it throws or issues the put of the merge
UpdateGetSettles ==
  /\ op.name = "update"
  /\ otx.state = "active"
  /\ \E r \in op.requests :
       /\ r.kind = "get"
       /\ LET th == UpdateThen(otx.work[op.key], op.updates)
          IN op' = IF th.throws
                     THEN [op EXCEPT !.requests = {},
                                     !.promise = Rejected(DOMError("NotFoundError"))]
                     ELSE [op EXCEPT !.requests = {[i |-> 2, kind |-> "put",
                                                    record |-> th.record]},
                                     !.writes = @ + 1]
  /\ UNCHANGED <<tbl, otx, schedVars, dbVars, txVars, upVars, wc>>

\* the put request succeeds: .then(() => undefined)
UpdatePutSettles ==
  /\ op.name = "update"
  /\ otx.state = "active"
  /\ \E r \in op.requests :
       /\ r.kind = "put"
       /\ otx' = [otx EXCEPT !.work = Put(otx.work, r.record)]
       /\ op' = [op EXCEPT !.requests = {}, !.promise = Resolved(Undefined)]
  /\ UNCHANGED <<tbl, schedVars, dbVars, txVars, upVars, wc>>

\* the items a bulkInsert may be given
ItemLists == UNION {[1..n -> Records] : n \in 0..MaxItems}

\* mutant of BulkOnSuccess: the key goes to the first free place of keys
BulkOnSuccessPush(keys, i, key) ==
  LET free == CHOOSE j \in 1..Len(keys) :
                keys[j] = 0 /\ \A m \in 1..(j - 1) : keys[m] # 0
  IN [keys EXCEPT ![free] = key]

\* req.onsuccess = () => { keys[i] = req.result; ... }
BulkOnSuccess(keys, i, key) == [keys EXCEPT ![i] = key]

\* bulkInsert(items): getStore; no items: Promise.resolve(keys); else one
\* store.add per item; keys is modelled at its final length, 0 marks a hole
BulkInsert(controller, table, items) ==
  /\ CanCall
  /\ IF table = "missing" THEN GetStoreThrows("bulkInsert", controller)
     ELSE Begin([NoOperation EXCEPT
                   !.name = "bulkInsert", !.controller = controller,
                   !.items = items,
                   !.requests = {[i |-> i, kind |-> "add", record |-> items[i]] :
                                   i \in 1..Len(items)},
                   !.keys = [i \in 1..Len(items) |-> 0],
                   !.writes = Len(items),
                   !.promise = IF Len(items) = 0 THEN Resolved(KeysArray) ELSE Pending])
  /\ UNCHANGED <<schedVars, dbVars, txVars, upVars, wc>>

\* one of the add requests completes (the order is left to the engine):
\* onsuccess stores the key and resolves after the last one, onerror rejects
BulkAddSettles ==
  /\ op.name = "bulkInsert"
  /\ otx.state = "active"
  /\ \E r \in op.requests :
       IF AddFails(otx.work, r.record)
         THEN RequestFailed(DOMError("ConstraintError"))
         ELSE /\ otx' = [otx EXCEPT !.work = Put(otx.work, r.record)]
              /\ op' = [op EXCEPT !.requests = @ \ {r},
                                  !.keys = BulkOnSuccess(@, r.i, r.record.id),
                                  !.completed = @ + 1,
                                  !.promise = IF op.completed + 1 = Len(op.items)
                                                THEN Resolved(KeysArray) ELSE @]
              /\ UNCHANGED tbl
  /\ UNCHANGED <<schedVars, dbVars, txVars, upVars, wc>>

\* filterFn: the records it returns a truthy value for
Filters == SUBSET Records

\* the value a query resolves with: the results array
ResultsArray == [kind |-> "results", of |-> 0]

\* mutant of CursorVisit: the filter's verdict is ignored
CursorVisitPushAll(results, value, filter) == Append(results, value)

\* if (filterFn(cursor.value)) results.push(cursor.value)
CursorVisit(results, value, filter) ==
  IF value \in filter THEN Append(results, value) ELSE results

\* query(filterFn): getStore, store.openCursor(), results = []
Query(controller, table, filter) ==
  /\ CanCall
  /\ IF table = "missing" THEN GetStoreThrows("query", controller)
     ELSE Begin([NoOperation EXCEPT !.name = "query", !.controller = controller,
                                    !.filter = filter,
                                    !.requests = {[i |-> 1, kind |-> "cursor",
                                                   record |-> Missing]},
                                    !.promise = Pending])
  /\ UNCHANGED <<schedVars, dbVars, txVars, upVars, wc>>

\* the cursor request's success event: the engine's cursor stands on the
\* record with the least key above the one it stood on, or is null past the
\* last; onsuccess visits the record and calls cursor.continue(), which
\* reuses the request, or resolves with results
CursorSuccess ==
  /\ op.name = "query"
  /\ otx.state = "active"
  /\ \E r \in op.requests :
       /\ r.kind = "cursor"
       /\ LET ahead == {k \in Ids : k > op.cursor /\ otx.work[k] # Missing}
          IN IF ahead # {}
               THEN LET key == CHOOSE k \in ahead : \A j \in ahead : k <= j
                    IN op' = [op EXCEPT
                                !.cursor = key,
                                !.visited = Append(@, otx.work[key]),
                                !.results = CursorVisit(@, otx.work[key], op.filter)]
               ELSE op' = [op EXCEPT !.requests = {},
                                     !.promise = Resolved(ResultsArray)]
  /\ UNCHANGED <<tbl, otx, schedVars, dbVars, txVars, upVars, wc>>

\* exists(key): requestToPromise(store.getKey(key)).then((k) => k !== undefined),
\* as a call made on the contents `view` resolves
exists(view, key) == view[key] # Missing

\* count(): requestToPromise(store.count())
count(view) == Cardinality({k \in Ids : view[k] # Missing})

\* no request is outstanding: the engine commits the transaction
TableCommit ==
  /\ otx.state = "active"
  /\ op.requests = {}
  /\ tbl' = otx.work
  /\ otx' = [otx EXCEPT !.state = "committed"]
  /\ UNCHANGED <<op, schedVars, dbVars, txVars, upVars, wc>>

\* no call with callbacks and no table operation is made in the other specifications
TableIdle ==
  /\ tbl = [k \in Ids |-> Missing]
  /\ otx = NoTransaction
  /\ op = NoOperation

OpIdle == wc = NoCall /\ TableIdle

\* the hook is idle in the registry's specification
SchedIdle ==
  /\ options = [mode |-> "sequential", hasConcurrency |-> FALSE, concurrency |-> 0]
  /\ queueRef = <<>>
  /\ sequenceRef = 0
  /\ activeCountRef = 0
  /\ terminatedRef = FALSE
  /\ loading = FALSE
  /\ result = Undefined
  /\ error = Undefined
  /\ queueSize = 0
  /\ microtasks = 0
  /\ phase = [s \in TaskIds |-> "none"]
  /\ promise = [s \in TaskIds |-> NoPromise]
  /\ work = [s \in TaskIds |-> NoPromise]
  /\ invoked = <<>>
  /\ runReturn = NoPromise
  /\ mounted = TRUE

\* no transaction is made in the other specifications
StoreIdle ==
  store = [t \in Tables |-> [k \in Keys |-> Absent]] /\ TxIdle /\ OpIdle /\ UpIdle

DbSpecInit == DbInit /\ SchedIdle /\ StoreIdle

DbSpec == DbSpecInit /\ [][DbNext]_vars


TxInit ==
  /\ store \in Contents
  /\ TxIdle
  /\ OpIdle
  /\ UpIdle
  /\ DbInit
  /\ SchedIdle

TxNext ==
  \/ \E s \in (SUBSET Tables) \ {{}}, a \in BOOLEAN : Transaction(s, a)
  \/ \E r \in Requests : CbWrite(r)
  \/ CbAwait
  \/ CbReturn
  \/ CbThrow
  \/ RequestSuccess
  \/ RequestError
  \/ Commit

TxSpec == TxInit /\ [][TxNext]_vars

HookOptions ==
  {[mode |-> "sequential", hasConcurrency |-> FALSE, concurrency |-> 0],
   [mode |-> "parallel", hasConcurrency |-> FALSE, concurrency |-> 0],
   [mode |-> "parallel", hasConcurrency |-> TRUE, concurrency |-> 0],
   [mode |-> "parallel", hasConcurrency |-> TRUE, concurrency |-> MaxConcurrency]}

SchedInit ==
  /\ DbInit
  /\ StoreIdle
  /\ options \in HookOptions
  /\ queueRef = <<>>
  /\ sequenceRef = 0
  /\ activeCountRef = 0
  /\ terminatedRef = FALSE
  /\ loading = FALSE
  /\ result = Undefined
  /\ error = Undefined
  /\ queueSize = 0
  /\ microtasks = 0
  /\ phase = [s \in TaskIds |-> "none"]
  /\ promise = [s \in TaskIds |-> NoPromise]
  /\ work = [s \in TaskIds |-> NoPromise]
  /\ invoked = <<>>
  /\ runReturn = NoPromise
  /\ mounted = TRUE

SchedNext ==
  \/ \E o \in RunOptions : run(o)
  \/ ProcessNextJob
  \/ \E s \in TaskIds : WorkSettles(s)
  \/ \E s \in TaskIds : Reaction(s)
  \/ \E s \in TaskIds : Finally(s)
  \/ clearQueue
  \/ terminate
  \/ Unmount

SchedSpec == SchedInit /\ [][SchedNext]_vars

\* the test's calls: api.run(a, {priority}) several times in one tick on a
\* sequential hook, from priority 1 up to one past MaxPriority
BatchOptions ==
  RunOptions \cup {[hasPriority |-> TRUE, priority |-> MaxPriority + 1]}

\* run() called while no processNext job has run since the hook was made:
\* every job queued so far is still waiting behind the caller's code
SubmitBackToBack(runOptions) ==
  /\ microtasks = sequenceRef
  /\ run(runOptions)

BatchInit ==
  /\ SchedInit
  /\ options.mode = "sequential"

BatchNext ==
  \/ \E o \in BatchOptions : SubmitBackToBack(o)
  \/ ProcessNextJob
  \/ \E s \in TaskIds : WorkSettles(s)
  \/ \E s \in TaskIds : Reaction(s)
  \/ \E s \in TaskIds : Finally(s)

BatchSpec == BatchInit /\ [][BatchNext]_vars


CallbackInit ==
  /\ wc \in {NewCall(kind, o) : kind \in {"table", "transaction"}, o \in CallOptions}
  /\ TableIdle
  /\ UpIdle
  /\ store = [t \in Tables |-> [k \in Keys |-> Absent]]
  /\ TxIdle
  /\ DbInit
  /\ SchedIdle

CallbackNext ==
  \/ \E outcome \in BaseOutcomes("table") \cup BaseOutcomes("transaction") :
       BaseSettles(outcome)
  \/ ThenReaction
  \/ CatchReaction

CallbackSpec == CallbackInit /\ [][CallbackNext]_vars

TableInit ==
  /\ tbl \in TableContents
  /\ otx = NoTransaction
  /\ op = NoOperation
  /\ wc = NoCall
  /\ UpIdle
  /\ store = [t \in Tables |-> [k \in Keys |-> Absent]]
  /\ TxIdle
  /\ DbInit
  /\ SchedIdle

\* the code using a controller calls one of its operations
CallInsert ==
  CanCall /\ \E c \in Controllers, n \in TableNames, d \in Records : Insert(c, n, d)
CallUpsert ==
  CanCall /\ \E c \in Controllers, n \in TableNames, d \in Records : Upsert(c, n, d)
CallUpdate ==
  CanCall /\ \E c \in Controllers, n \in TableNames, k \in Ids, u \in Partials :
               Update(c, n, k, u)
CallBulkInsert ==
  CanCall /\ \E c \in Controllers, n \in TableNames, items \in ItemLists :
               BulkInsert(c, n, items)
CallQuery ==
  CanCall /\ \E c \in Controllers, n \in TableNames, f \in Filters : Query(c, n, f)

TableNext ==
  \/ CallInsert
  \/ CallUpsert
  \/ CallUpdate
  \/ CallBulkInsert
  \/ CallQuery
  \/ WriteSettles
  \/ UpdateGetSettles
  \/ UpdatePutSettles
  \/ BulkAddSettles
  \/ CursorSuccess
  \/ TableCommit

TableSpec == TableInit /\ [][TableNext]_vars

SchemaInit ==
  /\ container \in Containers
  /\ request = [c \in Configs |-> NoTables]
  /\ schema = [c \in Configs |-> NoStores]
  /\ calls = {}
  /\ upgrade = NoUpgrade
  /\ failure = [c \in Configs |-> NoFailure]
  /\ DbInit
  /\ SchedIdle
  /\ store = [t \in Tables |-> [k \in Keys |-> Absent]]
  /\ TxIdle
  /\ OpIdle

\* a consumer calls openDB once more
CallOpen == Cardinality(calls) < MaxOpens /\ \E c \in SchemaConfigs : Open(c)

SchemaNext ==
  \/ CallOpen
  \/ \E c \in Configs : EngineOpen(c)
  \/ \E c \in Configs, e \in OpenErrors : EngineOpenFails(c, e)
  \/ \E c \in Configs : CloseConnection(c)
  \/ \E c \in Configs, t \in SchemaTables : InsertRecord(c, t)

SchemaSpec == SchemaInit /\ [][SchemaNext]_vars

\* ------------------------------------------------ registry claims
\* C3: for every (name, version) the engine is asked to open at most once,
\* every openDB call for it returned one and the same promise, and that
\* promise was made for this very (name, version): configurations that
\* differ in name or version never share a cache entry.
C3_SingleFlight ==
  \A c \in Configs :
    /\ engineOpens[c] <= 1
    /\ Cardinality(returned[c]) <= 1
    /\ \A p \in returned[c] : ConfigOf(p) = c
    /\ connectionCache[CacheKey(c)] # NoEntry => ConfigOf(connectionCache[CacheKey(c)]) = c

\* C3 witness: two effect runs hold the promise of one open that is still
\* pending, and the engine was asked once.
C3_Witness ==
  \E c \in Configs :
    /\ openState[c] = "pending"
    /\ engineOpens[c] = 1
    /\ \E e1, e2 \in effects :
         e1.binding # e2.binding /\ e1.promise = e2.promise /\ ConfigOf(e1.promise) = c

\* C5: no connection handed out by the registry is ever closed, and every
\* binding that reports isReady exposes a controller over an open connection.
C5_CachedConnectionOpen ==
  /\ \A c \in Configs : conn[c] # "closed"
  /\ \A b \in Bindings :
       binding[b].isReady => conn[ConfigOf(binding[b].db)] = "open"

\* --------------------------------------------- transaction claims
\* C4: once a transaction has ended whose callback wrote to both tables and
\* then threw, the transaction() call has failed (its promise rejected, or the
\* call itself threw for a callback that threw synchronously) and both tables
\* hold what they held before the transaction.
C4_Atomicity ==
  (txn.state \in {"committed", "aborted"} /\ cb.state = "threw" /\ cb.wrote = Tables)
    => (TransactionResult.state \in {"rejected", "threw"} /\ store = before)

\* ------------------------------------------------------ scheduler claims
PendingTasks == {queueRef[i].sequence : i \in 1..Len(queueRef)}
SlotHolders == {s \in TaskIds : phase[s] \in {"running", "settled"}}
Unsettled == {s \in TaskIds : work[s] = Pending}
Before(a, b) ==
  \/ a.priority < b.priority
  \/ a.priority = b.priority /\ a.sequence < b.sequence
ConcurrencyLimit ==
  IF options.mode = "sequential" THEN 1
  ELSE IF ~options.hasConcurrency THEN DefaultConcurrency
  ELSE IF options.concurrency >= 1 THEN options.concurrency ELSE 1

\* C1: in every reachable state the number of work-function invocations that
\* have started and not yet settled, and activeCount itself, is at most the
\* concurrency limit (1 in sequential mode, max(1, concurrency) in parallel
\* mode), and activeCount is never negative.
C1_ConcurrencyBound ==
  /\ activeCountRef >= 0
  /\ activeCountRef <= ConcurrencyLimit
  /\ Cardinality(Unsettled) <= activeCountRef

\* C1 witness: a parallel scheduler filled up to a limit above 1 while a
\* further task submitted with them is still waiting.
C1_Witness ==
  /\ options.mode = "parallel"
  /\ ConcurrencyLimit > 1
  /\ Cardinality(Unsettled) = ConcurrencyLimit
  /\ Len(queueRef) > 0

\* C2: every task handed to the work function by a step precedes, in the
\* order (priority ascending, sequence ascending), every task that was still
\* pending when it was started: those started after it in the same pass and
\* those left in the queue.
C2_StartsMinimum ==
  \A i \in 1..Len(invoked) :
    /\ \A j \in (i + 1)..Len(invoked) : Before(invoked[i], invoked[j])
    /\ \A k \in 1..Len(queueRef) : Before(invoked[i], queueRef[k])

\* C2 witness: a task was started ahead of an earlier-submitted task that is
\* still pending, because its priority is more urgent.
C2_Witness ==
  \E i \in 1..Len(invoked) : \E k \in 1..Len(queueRef) :
    /\ invoked[i].sequence > queueRef[k].sequence
    /\ invoked[i].priority < queueRef[k].priority

\* what a clearQueue() call must do to the state
C6_Post ==
  /\ \A s \in TaskIds :
       promise'[s] = IF s \in PendingTasks THEN Rejected(ClearedError)
                     ELSE promise[s]
  /\ queueRef' = <<>>
  /\ activeCountRef' = activeCountRef
  /\ \A s \in SlotHolders : phase'[s] = phase[s] /\ work'[s] = work[s]
  /\ invoked' = <<>>

\* C6: clearQueue() rejects exactly the tasks pending at the call with the
\* 'Task cleared from queue' reason and empties the pending collection; the
\* running tasks keep their slot, are never rejected as cleared, and once
\* settled hold their own work function's outcome.
C6_ClearQueue ==
  /\ [][clearQueue => C6_Post]_vars
  /\ [][\A s \in SlotHolders : promise'[s] # Rejected(ClearedError)]_vars
  /\ [](\A s \in TaskIds : phase[s] \in {"settled", "done"} => promise[s] = work[s])

\* C6 witness: task 1 is running and holds the only slot in use, task 2 was
\* rejected as cleared; task 1 was therefore running during the clearQueue().
C6_Witness ==
  /\ phase[1] = "running"
  /\ activeCountRef = 1
  /\ promise[2] = Rejected(ClearedError)
  /\ queueRef = <<>>

\* C7: on a terminated scheduler every run() returns a promise rejected with
\* 'Worker is terminated' and changes neither the pending collection, nor
\* activeCount, the sequence counter, queueSize or any task; no step adds a
\* task; and a task running in a terminated scheduler is settled by nothing
\* but the outcome of its own work function, whose reaction stays enabled.
C7_RunAfterTerminate ==
  /\ [][\A o \in RunOptions :
          (terminatedRef /\ run(o)) =>
            /\ runReturn' = Rejected(TerminatedError)
            /\ UNCHANGED <<queueRef, activeCountRef, sequenceRef, queueSize,
                           phase, promise, microtasks>>]_vars
  /\ [][terminatedRef =>
          /\ sequenceRef' = sequenceRef
          /\ PendingTasks' \subseteq PendingTasks
          /\ \A s \in SlotHolders :
               \/ promise'[s] = promise[s]
               \/ /\ promise[s] = Pending
                  /\ work[s].state \in {"resolved", "rejected"}
                  /\ promise'[s] = work[s]]_vars
  /\ [](terminatedRef =>
          \A s \in TaskIds :
            /\ (phase[s] = "running" /\ work[s] = Pending) => ENABLED WorkSettles(s)
            /\ (phase[s] = "running" /\ work[s] # Pending) => ENABLED Reaction(s)
            /\ phase[s] = "settled" => ENABLED Finally(s))

\* C7 witness: run() was rejected as terminated while a task was running,
\* and that task has since settled with its work function's value.
C7_Witness ==
  /\ terminatedRef
  /\ runReturn = Rejected(TerminatedError)
  /\ \E s \in TaskIds : phase[s] = "done" /\ promise[s] = Resolved(Value(s))

\* C8: in every state in which the terminated flag is set the pending
\* collection is empty, every task accepted and not started has been
\* rejected, and the latest step invoked no work function.
C8_TerminatedDrained ==
  terminatedRef =>
    /\ queueRef = <<>>
    /\ \A s \in TaskIds : phase[s] # "queued"
    /\ invoked = <<>>

\* C9: while the hook is mounted, loading is true exactly when queueSize > 0.
C9_LoadingIffBusy == mounted => (loading <=> queueSize > 0)

\* C10: queueSize equals the number of pending tasks plus the number of
\* tasks that hold an execution slot (started, completion not yet finished).
C10_QueueSize ==
  queueSize = Cardinality(PendingTasks) + Cardinality(SlotHolders)

\* C10 witness: one task waits while two run, and queueSize is 3.
C10_Witness ==
  /\ Len(queueRef) = 1
  /\ Cardinality(SlotHolders) = 2
  /\ queueSize = 3

\* the tasks submitted so far are all waiting, in submission order
AllWaiting ==
  /\ Len(queueRef) = sequenceRef
  /\ \A i \in 1..Len(queueRef) : queueRef[i].sequence = i /\ phase[i] = "queued"
  /\ activeCountRef = 0

\* C11: tasks submitted back-to-back to an idle sequential scheduler: while the
\* submitting code runs nothing starts, so every task of the batch is enqueued
\* before the first one starts; and no task begins execution while a task
\* that precedes it in (priority, submission order) is left waiting, so the
\* batch executes in ascending (priority, submission order), one at a time.
C11_BatchOrder ==
  /\ [](microtasks = sequenceRef => AllWaiting)
  /\ [][\A i, j \in 1..Len(queueRef) :
          (phase'[queueRef[i].sequence] = "running" /\
           phase'[queueRef[j].sequence] = "queued")
            => Before(queueRef[i], queueRef[j])]_vars
  /\ [](Cardinality(SlotHolders) <= 1)

\* C11 witness: of three tasks submitted in one go the second has run to its
\* end, the first is running and the third, of priority 3, is still waiting;
\* the one submitted first was overtaken.
C11_Witness ==
  /\ microtasks = 0
  /\ phase[2] = "done"
  /\ phase[1] = "running"
  /\ queueRef = <<[priority |-> MaxPriority + 1, sequence |-> 3]>>

\* C12: a task whose work function rejected has only its own promise rejected,
\* with its own error, which becomes the last error; no other task's promise,
\* phase or work changes in that step (the step in which its reaction runs,
\* running -> settled). Its completion (settled -> done) releases its slot and,
\* unless the scheduler was terminated, starts a waiting task. No task is
\* started twice, activeCount counts exactly the tasks holding a slot, and a
\* promise is only ever settled with its own task's outcome or as cleared.
C12_FailureIsolation ==
  /\ [][\A s \in TaskIds :
          (phase[s] = "running" /\ phase'[s] = "settled" /\ work[s].state = "rejected") =>
            /\ promise'[s] = Rejected(WorkError(s))
            /\ error' = WorkError(s)
            /\ result' = result
            /\ queueRef' = queueRef
            /\ \A t \in TaskIds \ {s} :
                 promise'[t] = promise[t] /\ phase'[t] = phase[t] /\ work'[t] = work[t]]_vars
  /\ [][\A s \in TaskIds :
          (phase[s] = "settled" /\ phase'[s] = "done" /\ promise[s].state = "rejected") =>
            /\ activeCountRef' = activeCountRef - 1 + Len(invoked')
            /\ (~terminatedRef /\ queueRef # <<>>) => invoked' # <<>>
            /\ promise' = promise
            /\ \A t \in SlotHolders \ {s} : phase'[t] = phase[t] /\ work'[t] = work[t]]_vars
  /\ [][\A s \in TaskIds :
          phase[s] \in {"settled", "done"} =>
            phase'[s] \in {"settled", "done"} /\ work'[s] = work[s]]_vars
  /\ [](activeCountRef = Cardinality(SlotHolders))
  /\ [](\A s \in TaskIds :
          /\ promise[s].state = "rejected" => promise[s].with \in {WorkError(s), ClearedError}
          /\ promise[s].state = "resolved" => promise[s].with = Value(s))

\* C12 witness: in sequential mode task 1 failed and is done, and task 2,
\* started by the completion of task 1, has resolved with its own value.
C12_Witness ==
  /\ options.mode = "sequential"
  /\ phase[1] = "done"
  /\ promise[1] = Rejected(WorkError(1))
  /\ promise[2] = Resolved(Value(2))
  /\ activeCountRef = 0

\* C13: whenever the promise returned by transaction() is resolved, the
\* callback has returned, the engine has committed the transaction, no
\* request of it is outstanding, and the committed contents of every table in
\* its scope are the transaction's working copy; a request leaves the
\* transaction's queue only by being applied to that copy (the written key
\* then holds the written value) or by the transaction aborting.
C13_ResolvesAfterCommit ==
  /\ [](TransactionResult.state = "resolved" =>
          /\ cb.state = "returned"
          /\ txn.state = "committed"
          /\ txn.queue = <<>>
          /\ \A t \in txn.scope : store[t] = txn.work[t])
  /\ [][(txn.state = "active" /\ txn.queue # <<>> /\ txn'.queue = Tail(txn.queue)
           /\ txn'.state = "active") =>
          LET r == Head(txn.queue)
          IN txn'.work = [txn.work EXCEPT ![r.table][r.key] = r.val]]_vars
  /\ [][(txn.state = "active" /\ txn'.state = "committed") =>
          /\ txn.queue = <<>>
          /\ \A t \in txn.scope : store'[t] = txn.work[t]]_vars

\* C13 witness: an async callback wrote to both tables of a two-table
\* transaction and returned, the transaction committed, the call resolved,
\* and the committed contents differ from those before the transaction.
C13_Witness ==
  /\ TransactionResult.state = "resolved"
  /\ cb.async
  /\ cb.wrote = Tables
  /\ \A t \in Tables : store[t] # before[t]

\* the callback invocations a call owes: onSuccess with the result if the
\* operation succeeded, onError with the reason if it failed, if supplied
ExpectedCalls ==
  IF wc.base.state = "resolved"
    THEN IF wc.options.onSuccess = "absent" THEN <<>>
         ELSE <<Invocation("onSuccess", wc.base.with)>>
    ELSE IF wc.options.onError = "absent" THEN <<>>
         ELSE <<Invocation("onError", wc.base.with)>>

\* C14: once a call made with callbacks has settled, its promise is settled
\* the same way and with the same value or reason as the operation's own
\* promise (what the call returns without callbacks), and the callbacks
\* invoked are exactly the one the outcome calls for, once.
C14_CallbacksTransparent ==
  wc.stage = "done" => (wc.returned = wc.base /\ wc.calls = ExpectedCalls)

\* ------------------------------------------------ table operation claims
\* C15: no table operation throws synchronously: every call returns a promise.
C15_NoSyncThrow == op.promise.state # "threw"

\* C16: once update(key, partial) has resolved and its transaction has
\* committed, the table is the table before the call with the record under
\* `key` replaced by the shallow merge of the stored record and `partial`;
\* no other key was created or modified.
C16_UpdateMerges ==
  (op.name = "update" /\ op.promise.state = "resolved" /\ otx.state = "committed")
    => tbl = [op.pre EXCEPT ![op.key] = Merge(op.pre[op.key], op.updates)]

\* C17: an update(key, partial) of a key that has no record issues no write
\* request, never resolves, is rejected with NotFoundError once the get
\* request has completed, and leaves the transaction's view and the committed
\* table as they were.
C17_UpdateMissingKey ==
  (op.name = "update" /\ op.key \in Ids /\ op.pre[op.key] = Missing) =>
    /\ op.writes = 0
    /\ op.promise.state # "resolved"
    /\ op.requests = {} => op.promise = Rejected(DOMError("NotFoundError"))
    /\ otx.work = op.pre
    /\ tbl = op.pre

\* C17 witness: through the transaction-scoped controller, an update of a
\* missing key of a table that holds another record was rejected and the
\* transaction has ended.
C17_Witness ==
  /\ op.name = "update"
  /\ op.controller = "transaction"
  /\ op.key \in Ids
  /\ op.pre[op.key] = Missing
  /\ count(op.pre) > 0
  /\ "v" \in DOMAIN op.updates
  /\ op.promise = Rejected(DOMError("NotFoundError"))
  /\ otx.state = "committed"

\* C18: insert(record) on a key that holds a record never resolves, rejects
\* with the engine's ConstraintError when its add request completes, and the
\* table stays as it was; insert on a fresh key never rejects, resolves with
\* the record's key, and once committed the key exists, count() has grown by
\* one and every other key is as before.
C18_Insert ==
  (op.name = "insert" /\ op.promise.state # "threw") =>
    IF exists(op.pre, op.data.id)
      THEN /\ op.promise.state # "resolved"
           /\ op.requests = {} => /\ op.promise = Rejected(DOMError("ConstraintError"))
                                  /\ otx.state = "aborted"
           /\ tbl = op.pre
      ELSE /\ op.promise.state # "rejected"
           /\ otx.state # "aborted"
           /\ op.requests = {} => op.promise = Resolved(Value(op.data.id))
           /\ otx.state = "committed" =>
                /\ exists(tbl, op.data.id)
                /\ tbl = [op.pre EXCEPT ![op.data.id] = op.data]
                /\ count(tbl) = count(op.pre) + 1

\* C18 witness: an insert of a record whose key holds another record was
\* rejected with ConstraintError.
C18_Witness ==
  /\ op.name = "insert"
  /\ op.data \in Records
  /\ exists(op.pre, op.data.id)
  /\ op.pre[op.data.id] # op.data
  /\ op.promise = Rejected(DOMError("ConstraintError"))
  /\ otx.state = "aborted"

\* the records given to bulkInsert have fresh, pairwise distinct keys
FreshDistinct ==
  /\ \A i \in 1..Len(op.items) : ~exists(op.pre, op.items[i].id)
  /\ \A i, j \in 1..Len(op.items) : i # j => op.items[i].id # op.items[j].id

\* C19: a bulkInsert is resolved only when every add request has succeeded,
\* and then keys has one element per record, the i-th being the key of
\* records[i]; with fresh, pairwise distinct keys it never rejects and once
\* committed count() has grown by the number of records; if an add request
\* fails it rejects, stays rejected and the table is left as it was; with no
\* records it resolves with the empty sequence and changes nothing.
C19_BulkInsert ==
  /\ [](op.name = "bulkInsert" /\ op.promise.state # "threw" =>
          /\ op.promise.state = "resolved" =>
               /\ op.promise = Resolved(KeysArray)
               /\ op.completed = Len(op.items)
               /\ op.requests = {}
               /\ Len(op.keys) = Len(op.items)
               /\ \A i \in 1..Len(op.items) : op.keys[i] = op.items[i].id
               /\ FreshDistinct
          /\ FreshDistinct =>
               /\ op.promise.state # "rejected"
               /\ op.requests = {} => op.promise.state = "resolved"
               /\ otx.state = "committed" =>
                    /\ count(tbl) = count(op.pre) + Len(op.items)
                    /\ \A i \in 1..Len(op.items) : tbl[op.items[i].id] = op.items[i]
          /\ op.promise.state = "rejected" => otx.state = "aborted" /\ tbl = op.pre
          /\ Len(op.items) = 0 => op.promise = Resolved(KeysArray) /\ op.keys = <<>>
                                    /\ otx.work = op.pre /\ tbl = op.pre)
  /\ [][op.promise.state = "rejected" => op'.promise = op.promise]_vars

\* C19 witness: two records with keys 2 and 1, in that order, were inserted;
\* keys is <<2, 1>> and the table has grown by two.
C19_Witness ==
  /\ op.name = "bulkInsert"
  /\ Len(op.items) = 2
  /\ op.items[1].id = 2
  /\ op.items[2].id = 1
  /\ op.promise = Resolved(KeysArray)
  /\ op.keys = <<2, 1>>
  /\ otx.state = "committed"
  /\ count(tbl) = count(op.pre) + 2

\* C20: an upsert never rejects; it resolves with the record's key and, once
\* committed, the table is the table before the call with the record put
\* under its key; when the key held a record already, count() is unchanged.
C20_Upsert ==
  (op.name = "upsert" /\ op.promise.state # "threw") =>
    /\ op.promise.state # "rejected"
    /\ otx.state # "aborted"
    /\ op.requests = {} => op.promise = Resolved(Value(op.data.id))
    /\ otx.state = "committed" =>
         /\ tbl = [op.pre EXCEPT ![op.data.id] = op.data]
         /\ exists(op.pre, op.data.id) => count(tbl) = count(op.pre)
         /\ ~exists(op.pre, op.data.id) => count(tbl) = count(op.pre) + 1

\* C20 witness: an upsert on a key that held a record with another value
\* (as an earlier upsert of that key leaves it) has committed: the key holds
\* the later value and count() is as before.
C20_Witness ==
  /\ op.name = "upsert"
  /\ op.data \in Records
  /\ exists(op.pre, op.data.id)
  /\ op.pre[op.data.id].v # op.data.v
  /\ otx.state = "committed"
  /\ tbl[op.data.id] = op.data
  /\ count(tbl) = count(op.pre)

\* the records of a table in key order
InKeyOrder(view) ==
  [i \in 1..count(view) |->
     view[CHOOSE k \in Ids :
            /\ view[k] # Missing
            /\ Cardinality({j \in Ids : j < k /\ view[j] # Missing}) = i - 1]]

\* the records of a sequence that the filter accepts, in the sequence's order
RECURSIVE Accepted(_, _)
Accepted(records, filter) ==
  IF records = <<>> THEN <<>>
  ELSE IF Head(records) \in filter
    THEN <<Head(records)>> \o Accepted(Tail(records), filter)
  ELSE Accepted(Tail(records), filter)

\* C21: a query hands filterFn the records of the table one at a time in key
\* order, each at most once; it never rejects, stays pending while a record
\* is unvisited, and once the cursor is exhausted it is resolved, every
\* record has been visited exactly once and results holds exactly the
\* accepted records in key order; it issues no write and the transaction's
\* view and the committed table stay as they were.
C21_Query ==
  (op.name = "query" /\ op.promise.state # "threw") =>
    /\ op.visited = SubSeq(InKeyOrder(op.pre), 1, Len(op.visited))
    /\ op.results = Accepted(op.visited, op.filter)
    /\ op.promise.state # "rejected"
    /\ op.promise.state = "resolved" <=> op.requests = {}
    /\ op.promise.state = "resolved" =>
         /\ op.promise = Resolved(ResultsArray)
         /\ op.visited = InKeyOrder(op.pre)
         /\ op.results = Accepted(InKeyOrder(op.pre), op.filter)
    /\ op.writes = 0
    /\ otx.work = op.pre
    /\ tbl = op.pre

\* C21 witness: on a full table a query whose filter accepts the record
\* under the last key and rejects the one under the first has resolved with
\* that one record, and its transaction has committed.
C21_Witness ==
  /\ op.name = "query"
  /\ op.promise = Resolved(ResultsArray)
  /\ count(op.pre) = MaxId
  /\ op.pre[1] \notin op.filter
  /\ op.results = <<op.pre[MaxId]>>
  /\ Len(op.visited) = MaxId
  /\ otx.state = "committed"

\* ------------------------------------------------ schema claims
\* C22: for every openDB(config) call whose promise has resolved, the
\* connection has an object store for every table of config.tables (hasTable
\* is true) and that store has every index the table's schema names.
C22_OpenedSchema ==
  \A call \in calls :
    openState[ConfigOf(call.promise)] = "resolved" =>
      \A t \in SchemaTables :
        call.config.tables[t].configured =>
          /\ hasTable(ConfigOf(call.promise), t)
          /\ call.config.tables[t].indexes \subseteq
               schema[ConfigOf(call.promise)][t].indexes

\* C23: a failed open rejects the cached promise with the error the engine
\* reported; from then on the promise stays rejected with that reason, the
\* cache entry stays, no further request goes to the engine for that
\* (name, version), and every openDB call for it returns that same promise.
C23_FailedOpenCached ==
  /\ [](\A id \in Configs :
          openState[id] = "rejected" =>
            /\ connectionCache[CacheKey(id)] = OpenPromise(id, 1)
            /\ engineOpens[id] = 1
            /\ failure[id].reported # Undefined => failure[id].reason = failure[id].reported
            /\ failure[id].reason # Undefined)
  /\ [][\A id \in Configs :
          openState[id] = "rejected" =>
            /\ openState'[id] = "rejected"
            /\ failure'[id] = failure[id]
            /\ engineOpens'[id] = engineOpens[id]
            /\ connectionCache'[CacheKey(id)] = connectionCache[CacheKey(id)]
            /\ returned'[id] = returned[id]]_vars
  /\ [](\A call \in calls :
          /\ call.promise = connectionCache[CacheKey(Identity(call.config))]
          /\ call.found = "rejected" => openState[ConfigOf(call.promise)] = "rejected")

\* C23 witness: an open failed with the engine's error, and a later openDB
\* call for the same (name, version), with another tables map, was given the
\* rejected promise; the engine was asked once.
C23_Witness ==
  \E c1, c2 \in calls :
    /\ Identity(c1.config) = Identity(c2.config)
    /\ c1.config.tables # c2.config.tables
    /\ c1.found = "none"
    /\ c2.found = "rejected"
    /\ c1.promise = c2.promise
    /\ failure[Identity(c1.config)].reason = DOMError("UnknownError")
    /\ engineOpens[Identity(c1.config)] = 1

\* C24: an upgrade runs only when the requested version is above the stored
\* one; it calls createObjectStore only for configured tables that the
\* container lacks and createIndex only on the stores it has just created, so
\* never for a store or index that exists; the stores that existed are after
\* the upgrade what they were before, records included. No step removes a
\* store or changes the indexes of an existing one or drops its records, and
\* an openDB call (a second one for the same identity included) by itself
\* touches neither the container nor issues a second request.
C24_UpgradeIdempotent ==
  /\ [](upgrade.ran =>
          /\ upgrade.oldVersion < upgrade.newVersion
          /\ \A t \in upgrade.createObjectStore : ~upgrade.before[t].present
          /\ \A r \in upgrade.createIndex :
               /\ r.table \in upgrade.createObjectStore
               /\ r.index \notin upgrade.before[r.table].indexes
          /\ \A t \in SchemaTables :
               upgrade.before[t].present => upgrade.after[t] = upgrade.before[t])
  /\ [][\A t \in SchemaTables :
          container.stores[t].present =>
            /\ container'.stores[t].present
            /\ container'.stores[t].indexes = container.stores[t].indexes
            /\ container.stores[t].rows => container'.stores[t].rows]_vars
  /\ [][upgrade' # upgrade => container.version < container'.version]_vars
  /\ [][calls' # calls => container' = container /\ upgrade' = upgrade]_vars
  /\ [](\A id \in Configs : engineOpens[id] <= 1)

\* C24 witness: an upgrade of a container whose store A held records, asked
\* for by a configuration naming A (with an index A lacks) and B: only B was
\* created, and A is as it was.
C24_Witness ==
  /\ upgrade.ran
  /\ upgrade.before["A"].present
  /\ upgrade.before["A"].rows
  /\ upgrade.before["A"].indexes = {}
  /\ \E id \in Configs :
       /\ id.version = upgrade.newVersion
       /\ request[id]["A"] = [configured |-> TRUE, indexes |-> IndexNames]
       /\ request[id]["B"].configured
  /\ upgrade.createObjectStore = {"B"}
  /\ upgrade.after["A"] = upgrade.before["A"]

\* ------------------------------------------------ scheduler claims, continued
\* the tasks whose work function has resolved / rejected and whose reaction ran
Succeeded == {s \in TaskIds : promise[s] = Resolved(Value(s))}
Failed == {s \in TaskIds : promise[s] = Rejected(WorkError(s))}

\* C25: result is the value of the task that succeeded last and error the
\* reason of the task that failed last: a success sets result to its value
\* and leaves error, a failure sets error to its reason and leaves result,
\* no other step changes either, result is undefined exactly while no task
\* has succeeded and error is undefined exactly while no task has failed.
C25_LastResultAndError ==
  /\ [][\A s \in TaskIds :
          (phase[s] = "running" /\ phase'[s] = "settled") =>
            IF work[s].state = "resolved"
              THEN result' = Value(s) /\ error' = error
              ELSE error' = WorkError(s) /\ result' = result]_vars
  /\ [][(\A s \in TaskIds : ~(phase[s] = "running" /\ phase'[s] = "settled")) =>
          (result' = result /\ error' = error)]_vars
  /\ [](result = Undefined <=> Succeeded = {})
  /\ [](error = Undefined <=> Failed = {})

\* C26: the promise of a task is settled by the reaction to that task's own
\* work-function invocation and by nothing else: that step gives it the
\* invocation's outcome and touches no other promise; a resolved promise
\* holds its own task's value, a rejected one its own task's reason unless
\* the task was cleared while pending; a settled promise never changes.
C26_OwnOutcome ==
  /\ [][\A s \in TaskIds :
          (phase[s] = "running" /\ phase'[s] = "settled") =>
            /\ promise[s] = Pending
            /\ work[s] \in {Resolved(Value(s)), Rejected(WorkError(s))}
            /\ promise'[s] = work[s]
            /\ \A u \in TaskIds \ {s} : promise'[u] = promise[u]]_vars
  /\ [](\A s \in TaskIds :
          /\ promise[s].state = "resolved" => promise[s] = work[s] /\ work[s].with = Value(s)
          /\ (promise[s].state = "rejected" /\ promise[s].with # ClearedError) =>
               promise[s] = work[s] /\ work[s].with = WorkError(s)
          /\ promise[s] = Rejected(ClearedError) => work[s] = NoPromise)
  /\ [][\A s \in TaskIds :
          promise[s].state \in {"resolved", "rejected"} => promise'[s] = promise[s]]_vars

\* C26 witness: in parallel mode tasks 1 and 2 ran together; task 2 finished
\* first and resolved with its own value, task 1 then failed with its own
\* reason, and task 3 is still running.
C26_Witness ==
  /\ options.mode = "parallel"
  /\ phase[2] = "done"
  /\ promise[2] = Resolved(Value(2))
  /\ phase[1] = "settled"
  /\ promise[1] = Rejected(WorkError(1))
  /\ phase[3] = "running"
  /\ work[3] = Pending

\* nothing is left for the scheduler to do by itself: no selection pass is
\* queued, no work function is outstanding, no reaction or completion waits
\* (the guards of ProcessNextJob, WorkSettles, Reaction and Finally are false)
Quiescent ==
  /\ microtasks = 0
  /\ \A s \in TaskIds : phase[s] \notin {"running", "settled"}

\* C27: every promise returned by run() eventually settles and the scheduler
\* eventually has no pending and no running task. Every step of the scheduler
\* is taken when it is due and every work function settles, so a behaviour
\* without further calls ends in a quiescent state and stays there; the
\* claim therefore requires of every quiescent state that each promise
\* returned by run() is settled, the pending collection is empty and no
\* task holds a slot.
C27_QuiescentSettled ==
  Quiescent =>
    /\ \A s \in TaskIds : promise[s] # Pending
    /\ queueRef = <<>>
    /\ activeCountRef = 0

\* the steps a task may take
Lifecycle ==
  {<<"none", "queued">>, <<"queued", "running">>, <<"queued", "cleared">>,
   <<"running", "settled">>, <<"settled", "done">>}

\* C28: a task moves only queued -> running -> settled -> done or
\* queued -> cleared; a work function is invoked only for a task that is
\* pending at that moment, once per step, so at most once per task; a task
\* rejected as cleared was never invoked and a task that was invoked is never
\* rejected as cleared; a promise that has settled keeps its state; a task
\* that has left the pending collection does not come back; the pending
\* tasks are distinct, and the sequence counter only grows, by one per
\* accepted task, whose number is the new counter value.
C28_TaskLifecycle ==
  /\ [][\A s \in TaskIds :
          phase'[s] # phase[s] => <<phase[s], phase'[s]>> \in Lifecycle]_vars
  /\ [][/\ \A i \in 1..Len(invoked') :
             /\ phase[invoked'[i].sequence] = "queued"
             /\ work[invoked'[i].sequence] = NoPromise
        /\ \A i, j \in 1..Len(invoked') :
             i # j => invoked'[i].sequence # invoked'[j].sequence]_vars
  /\ [][\A s \in TaskIds :
          /\ work[s] # NoPromise => work'[s] # NoPromise
          /\ promise[s].state \in {"resolved", "rejected"} =>
               promise'[s].state = promise[s].state
          /\ (phase[s] # "none" /\ s \notin PendingTasks) => s \notin PendingTasks']_vars
  /\ [](\A s \in TaskIds :
          /\ promise[s] = Rejected(ClearedError) <=> phase[s] = "cleared"
          /\ phase[s] = "cleared" => work[s] = NoPromise
          /\ phase[s] = "queued" <=> s \in PendingTasks
          /\ phase[s] = "none" <=> s > sequenceRef)
  /\ [](\A i, j \in 1..Len(queueRef) : i # j => queueRef[i].sequence # queueRef[j].sequence)
  /\ [][/\ sequenceRef' \in {sequenceRef, sequenceRef + 1}
        /\ sequenceRef' = sequenceRef + 1 =>
             /\ PendingTasks' = PendingTasks \cup {sequenceRef + 1}
             /\ phase[sequenceRef + 1] = "none"]_vars

\* C28 witness: task 1 ran to its end and resolved, task 2 was cleared
\* while pending and never invoked, and task 3, accepted later, is running.
C28_Witness ==
  /\ phase = <<"done", "cleared", "running">>
  /\ promise[1] = Resolved(Value(1))
  /\ promise[2] = Rejected(ClearedError)
  /\ work[2] = NoPromise
  /\ sequenceRef = 3

\* C29: when the scheduler is not terminated and no processNext job is
\* queued, a non-empty pending collection means that activeCount equals the
\* concurrency limit: no task waits while a slot is free.
C29_WorkConserving ==
  (~terminatedRef /\ microtasks = 0 /\ queueRef # <<>>) =>
    activeCountRef = ConcurrencyLimit

\* C29 witness: in sequential mode task 1 has completed, its completion
\* started task 2, and task 3 waits while task 2 holds the only slot.
C29_Witness ==
  /\ ~terminatedRef
  /\ microtasks = 0
  /\ options.mode = "sequential"
  /\ phase = <<"done", "running", "queued">>
  /\ Len(queueRef) = 1
  /\ activeCountRef = 1

\* ------------------------------------------------ hook binding claims
\* C30: for every binding, isReady holds exactly when db is set, error is
\* set only while isReady is false, and the db of a ready binding is the
\* connection opened for the binding's current (name, version); the
\* completion, success or failure, of an open that an effect run requested
\* for another (name, version) than the current one, or that was cancelled
\* by a re-run or an unmount, leaves every binding as it was.
C30_BindingState ==
  /\ [](\A b \in Bindings :
          /\ binding[b].isReady <=> binding[b].db # NoEntry
          /\ binding[b].error => ~binding[b].isReady
          /\ binding[b].isReady => ConfigOf(binding[b].db) = binding[b].config)
  /\ [][\A e \in effects :
          (/\ effects' = effects \ {e}
           /\ \/ e.cancelled
              \/ ConfigOf(e.promise) # binding[e.binding].config)
            => binding' = binding]_vars

====
